---- MODULE Spec2Model ----
(***************************************************************************)
(* A model of pgwrr/db.py: reserved(), zone() and site().                  *)
(*                                                                         *)
(* Python strings on which the code does character work (IP address text,  *)
(* query names, sort keys) are sequences of one-character strings, so that *)
(* split(), find(), slicing and sorted() are computed and not assumed.     *)
(* Strings that the code only uses as dictionary keys (country and region  *)
(* codes, zone names, DNS classes) are TLA+ strings.                       *)
(***************************************************************************)
EXTENDS Integers, Sequences, FiniteSets, TLC

VARIABLES
    \* ---- one call of zone(georeader, zones, remoteip, edns)
    zpc,        \* position in zone(): "entry", "geolocate", "select", "done", "raised"
    zones,      \* the zones argument
    remoteip,   \* the remoteip argument
    edns0,      \* the edns argument as passed
    edns,       \* local `edns`, rebound to edns.split('/')[0] at line 103
    address,    \* local `address`, the argument of georeader.city()
    geo,        \* local `geo`, the answer of georeader.city()
    lookups,    \* how many times georeader.city() has been called
    zresult,    \* the value zone() returned
    zraised,    \* the exception that left zone(), or "none"
    \* ---- one call of site(sites, qname, qzone, qclass, qtype)
    spc,        \* position in site(): "name", "class", "types", "loop", "done"
    sites,      \* the sites argument (the configuration)
    qname0,     \* the qname argument as passed
    qname,      \* local `qname`, rebound to the wildcard at line 179
    qzone,      \* the qzone argument
    qclass,     \* the qclass argument
    qtype,      \* the qtype argument
    wildcard,   \* local `wildcard` (line 177), NoStr while not computed
    mclass,     \* local `mclass`
    qtypes,     \* local `qtypes`
    records,    \* the list built from line 198 on (the code rebinds `sites`)
    mcontent,   \* local `mcontent` of the latest loop iteration
    rnd,        \* local `rnd` of the latest loop iteration, 0 when none was drawn
    sresult,    \* the value site() returned
    sraised     \* the exception that left site(), or "none"

zvars == <<zpc, zones, remoteip, edns0, edns, address, geo, lookups, zresult, zraised>>
svars == <<spc, sites, qname0, qname, qzone, qclass, qtype, wildcard, mclass,
           qtypes, records, mcontent, rnd, sresult, sraised>>
vars == <<zvars, svars>>

(***************************************************************************)
(* Bounds of the model.                                                    *)
(***************************************************************************)
MaxWeight == 2      \* weights of a weight table range over 0..MaxWeight
NumAddrs == 3       \* how many addresses of AddrPool a weight table may hold
DefaultTtl == 3600  \* mname.get('ttl', 3600)

(***************************************************************************)
(* Characters and strings.                                                 *)
(***************************************************************************)
\* The characters the model uses, in ascending code point order.
CharTable ==
    <<"*", "-", ".", "/", "0", "1", "2", "3", "4", "5", "6", "7", "8", "9",
      ":", "A", "B", "C", "D", "E", "F", "H", "I", "M", "N", "T", "X", "Y",
      "a", "b", "c", "d", "e", "f", "n", "o", "p", "t">>

\* Position of a character in the code point order (what < on characters uses).
Ord(c) == CHOOSE i \in 1..Len(CharTable) : CharTable[i] = c

\* Python's < on strings: lexicographic by code point, a proper prefix is smaller.
RECURSIVE StrLess(_, _)
StrLess(a, b) ==
    IF b = <<>> THEN FALSE
    ELSE IF a = <<>> THEN TRUE
    ELSE IF Head(a) = Head(b) THEN StrLess(Tail(a), Tail(b))
    ELSE Ord(Head(a)) < Ord(Head(b))

\* str.find(ch): the 0-based index of the first ch, -1 when there is none.
Find(s, ch) ==
    IF \E i \in 1..Len(s) : s[i] = ch
    THEN (CHOOSE i \in 1..Len(s) : s[i] = ch /\ \A j \in 1..(i - 1) : s[j] /= ch) - 1
    ELSE -1

\* The slice s[k:] with Python's meaning of a negative k.
SliceFrom(s, k) ==
    LET n == Len(s)
        from == IF k < 0 THEN (IF n + k < 0 THEN 0 ELSE n + k)
                ELSE (IF k > n THEN n ELSE k)
    IN  SubSeq(s, from + 1, n)

\* str.split(sep) for a one-character sep: always at least one part.
RECURSIVE Split(_, _)
Split(s, sep) ==
    LET k == Find(s, sep)
    IN  IF k < 0 THEN <<s>>
        ELSE <<SubSeq(s, 1, k)>> \o Split(SubSeq(s, k + 2, Len(s)), sep)

\* A variant of Sorted: descending instead of ascending.
RECURSIVE SortedDescending(_)
SortedDescending(S) ==
    IF S = {} THEN <<>>
    ELSE LET m == CHOOSE x \in S : \A y \in S \ {x} : StrLess(y, x)
         IN  <<m>> \o SortedDescending(S \ {m})

\* sorted(keys): ascending by StrLess.
RECURSIVE Sorted(_)
Sorted(S) ==
    IF S = {} THEN <<>>
    ELSE LET m == CHOOSE x \in S : \A y \in S \ {x} : StrLess(x, y)
         IN  <<m>> \o Sorted(S \ {m})

\* sum(mcontent.values())
RECURSIVE SumValues(_)
SumValues(f) ==
    IF DOMAIN f = {} THEN 0
    ELSE LET k == CHOOSE x \in DOMAIN f : TRUE
         IN  f[k] + SumValues([x \in DOMAIN f \ {k} |-> f[x]])

NoStr == <<"?">>    \* stands for "not bound yet"; "?" is no character of any input

(***************************************************************************)
(* ipaddr.IPAddress(unicode(address)), line 57: the text of an IPv4 or an  *)
(* IPv6 address to its groups (4 octets, or 8 hextets); ValueError when    *)
(* the text is neither.                                                    *)
(***************************************************************************)
DecDigits == <<"0", "1", "2", "3", "4", "5", "6", "7", "8", "9">>
HexDigits == DecDigits \o <<"a", "b", "c", "d", "e", "f">>
UpperHex == [c \in {"A", "B", "C", "D", "E", "F"} |->
                CASE c = "A" -> "a" [] c = "B" -> "b" [] c = "C" -> "c"
                  [] c = "D" -> "d" [] c = "E" -> "e" [] c = "F" -> "f"]

IsDec(c) == \E i \in 1..Len(DecDigits) : DecDigits[i] = c
IsHex(c) == c \in DOMAIN UpperHex \/ \E i \in 1..Len(HexDigits) : HexDigits[i] = c
HexDigitVal(c) ==
    LET l == IF c \in DOMAIN UpperHex THEN UpperHex[c] ELSE c
    IN  (CHOOSE i \in 1..Len(HexDigits) : HexDigits[i] = l) - 1

\* int(s, base) of a non-empty string of digits of that base.
RECURSIVE IntOf(_, _)
IntOf(s, base) ==
    IF s = <<>> THEN 0
    ELSE IntOf(SubSeq(s, 1, Len(s) - 1), base) * base + HexDigitVal(s[Len(s)])

RECURSIVE Pow2(_)
Pow2(n) == IF n = 0 THEN 1 ELSE 2 * Pow2(n - 1)

\* IPv4Address._parse_octet: decimal digits only, at most 255, no leading zero;
\* -1 stands for ValueError.
ParseOctet(p) ==
    IF p = <<>> \/ Len(p) > 3 \/ \E i \in 1..Len(p) : ~IsDec(p[i]) THEN -1
    ELSE IF p[1] = "0" /\ Len(p) > 1 THEN -1
    ELSE IF IntOf(p, 10) > 255 THEN -1
    ELSE IntOf(p, 10)

\* IPv4Address(text): the four octets, <<>> when the text is no IPv4 address.
ParseIPv4(s) ==
    LET parts == Split(s, ".")
    IN  IF Len(parts) /= 4 \/ \E i \in 1..4 : ParseOctet(parts[i]) < 0 THEN <<>>
        ELSE [i \in 1..4 |-> ParseOctet(parts[i])]

\* IPv6Address._parse_hextet: one to four hex digits; -1 stands for ValueError.
ParseHextet(p) ==
    IF p = <<>> \/ Len(p) > 4 \/ \E i \in 1..Len(p) : ~IsHex(p[i]) THEN -1
    ELSE IntOf(p, 16)

\* A part of the text of an IPv6 address: its characters, or, for the two
\* hextets an IPv4-style suffix is converted to, its value.
PartEmpty(p) == "txt" \in DOMAIN p /\ p.txt = <<>>
PartVal(p) == IF "val" \in DOMAIN p THEN p.val ELSE ParseHextet(p.txt)

\* `parts` with its last part, an IPv4-style suffix parsed to v4, replaced by two
\* hextets; <<>> when the suffix is no IPv4 address.
V6Embed(parts, v4) ==
    IF v4 = <<>> THEN <<>>
    ELSE [i \in 1..(Len(parts) - 1) |-> [txt |-> parts[i]]]
         \o <<[val |-> v4[1] * 256 + v4[2]], [val |-> v4[3] * 256 + v4[4]]>>

\* if '.' in parts[-1]: the suffix is converted.
V6Parts(parts) ==
    IF Find(parts[Len(parts)], ".") < 0
    THEN [i \in 1..Len(parts) |-> [txt |-> parts[i]]]
    ELSE V6Embed(parts, ParseIPv4(parts[Len(parts)]))

\* No '::': exactly eight hextets.
V6Full(parts) ==
    IF Len(parts) /= 8 \/ \E i \in 1..Len(parts) : PartVal(parts[i]) < 0 THEN <<>>
    ELSE [i \in 1..8 |-> PartVal(parts[i])]

\* A '::' with hi hextets before it and lo after it stands for 8 - (hi + lo)
\* zero hextets, at least one.
V6Expand(parts, hi, lo) ==
    IF 8 - (hi + lo) < 1 THEN <<>>
    ELSE IF \E i \in (1..hi) \cup ((Len(parts) - lo + 1)..Len(parts)) :
                PartVal(parts[i]) < 0
         THEN <<>>
    ELSE [i \in 1..8 |->
            IF i <= hi THEN PartVal(parts[i])
            ELSE IF i <= 8 - lo THEN 0
            ELSE PartVal(parts[Len(parts) - (8 - i)])]

\* The '::' is the empty part at index skip: a leading ':' is allowed only as
\* part of a leading '::', a trailing ':' only as part of a trailing '::'.
V6Compressed(parts, skip) ==
    IF PartEmpty(parts[1]) /\ skip /= 2 THEN <<>>
    ELSE IF PartEmpty(parts[Len(parts)]) /\ skip /= Len(parts) - 1 THEN <<>>
    ELSE V6Expand(parts,
                  IF PartEmpty(parts[1]) THEN skip - 2 ELSE skip - 1,
                  IF PartEmpty(parts[Len(parts)]) THEN Len(parts) - skip - 1
                  ELSE Len(parts) - skip)

\* At most one '::' (an empty part that is neither the first nor the last).
V6Skips(parts, skips) ==
    IF Cardinality(skips) > 1 THEN <<>>
    ELSE IF skips = {} THEN V6Full(parts)
    ELSE V6Compressed(parts, CHOOSE i \in skips : TRUE)

V6Hextets(parts) ==
    IF parts = <<>> \/ Len(parts) > 9 THEN <<>>
    ELSE V6Skips(parts, {i \in 2..(Len(parts) - 1) : PartEmpty(parts[i])})

\* IPv6Address(text): the eight hextets, <<>> when the text is no IPv6 address.
ParseIPv6(s) ==
    IF Len(Split(s, ":")) < 3 THEN <<>>
    ELSE V6Hextets(V6Parts(Split(s, ":")))

Invalid == [version |-> 0, groups |-> <<>>]

\* ipaddr.IPAddress(text): IPv4 is tried first, then IPv6; Invalid stands for
\* the ValueError raised when both fail.
IPAddress(s) ==
    IF ParseIPv4(s) /= <<>> THEN [version |-> 4, groups |-> ParseIPv4(s)]
    ELSE IF ParseIPv6(s) /= <<>> THEN [version |-> 6, groups |-> ParseIPv6(s)]
    ELSE Invalid

Net4(a, b, c, d, plen) == [version |-> 4, groups |-> <<a, b, c, d>>, plen |-> plen]
Net6(groups, plen) == [version |-> 6, groups |-> groups, plen |-> plen]

\* `ip in net`: same version and the same leading plen bits.
InNet(ip, net) ==
    LET w == IF net.version = 4 THEN 8 ELSE 16
    IN  /\ ip.version = net.version
        /\ \A i \in 1..Len(net.groups) :
              LET rest == net.plen - (i - 1) * w
                  bits == IF rest < 0 THEN 0 ELSE IF rest > w THEN w ELSE rest
                  low == Pow2(w - bits)
              IN  ip.groups[i] \div low = net.groups[i] \div low

_IPV4_PRIVATE_NETWORKS ==
    { Net4(0, 0, 0, 0, 8),       Net4(10, 0, 0, 0, 8),      Net4(127, 0, 0, 0, 8),
      Net4(169, 254, 0, 0, 16),  Net4(172, 16, 0, 0, 12),   Net4(192, 0, 0, 0, 29),
      Net4(192, 0, 0, 170, 31),  Net4(192, 0, 2, 0, 24),    Net4(192, 168, 0, 0, 16),
      Net4(198, 18, 0, 0, 15),   Net4(198, 51, 100, 0, 24), Net4(203, 0, 113, 0, 24),
      Net4(240, 0, 0, 0, 4),     Net4(255, 255, 255, 255, 32) }

_IPV6_PRIVATE_NETWORKS ==
    { Net6(<<0, 0, 0, 0, 0, 0, 0, 1>>, 128),        \* ::1/128
      Net6(<<0, 0, 0, 0, 0, 0, 0, 0>>, 128),        \* ::/128
      Net6(<<0, 0, 0, 0, 0, 65535, 0, 0>>, 96),     \* ::ffff:0:0/96
      Net6(<<256, 0, 0, 0, 0, 0, 0, 0>>, 64),       \* 100::/64
      Net6(<<8193, 0, 0, 0, 0, 0, 0, 0>>, 23),      \* 2001::/23
      Net6(<<8193, 2, 0, 0, 0, 0, 0, 0>>, 48),      \* 2001:2::/48
      Net6(<<8193, 3512, 0, 0, 0, 0, 0, 0>>, 32),   \* 2001:db8::/32
      Net6(<<8193, 16, 0, 0, 0, 0, 0, 0>>, 28),     \* 2001:10::/28
      Net6(<<64512, 0, 0, 0, 0, 0, 0, 0>>, 7),      \* fc00::/7
      Net6(<<65152, 0, 0, 0, 0, 0, 0, 0>>, 10) }    \* fe80::/10

\* The ipaddr properties reserved() reads, lines 59-63.
is_private(ip) ==
    \/ InNet(ip, Net4(10, 0, 0, 0, 8))
    \/ InNet(ip, Net4(172, 16, 0, 0, 12))
    \/ InNet(ip, Net4(192, 168, 0, 0, 16))
    \/ InNet(ip, Net6(<<64512, 0, 0, 0, 0, 0, 0, 0>>, 7))
is_multicast(ip) ==
    \/ InNet(ip, Net4(224, 0, 0, 0, 4))
    \/ InNet(ip, Net6(<<65280, 0, 0, 0, 0, 0, 0, 0>>, 8))
is_unspecified(ip) ==
    \/ InNet(ip, Net4(0, 0, 0, 0, 32))
    \/ InNet(ip, Net6(<<0, 0, 0, 0, 0, 0, 0, 0>>, 128))
is_loopback(ip) ==
    \/ InNet(ip, Net4(127, 0, 0, 0, 8))
    \/ InNet(ip, Net6(<<0, 0, 0, 0, 0, 0, 0, 1>>, 128))
is_link_local(ip) ==
    \/ InNet(ip, Net4(169, 254, 0, 0, 16))
    \/ InNet(ip, Net6(<<65152, 0, 0, 0, 0, 0, 0, 0>>, 10))

\* reserved(address), lines 54-76.
reserved(addr) ==
    LET ip == IPAddress(addr)
    IN  IF ip = Invalid THEN TRUE       \* except ValueError: return True
        ELSE \/ is_private(ip)
             \/ is_multicast(ip)
             \/ is_unspecified(ip)
             \/ is_loopback(ip)
             \/ is_link_local(ip)
             \/ /\ ip.version = 4
                /\ \/ \E net \in _IPV4_PRIVATE_NETWORKS : InNet(ip, net)
                   \/ InNet(ip, Net4(100, 64, 0, 0, 10))
             \/ /\ ip.version = 6
                /\ \E net \in _IPV6_PRIVATE_NETWORKS : InNet(ip, net)

(***************************************************************************)
(* zone(georeader, zones, remoteip, edns), lines 78-136.                   *)
(*                                                                         *)
(* A value of the zones dict is tagged with its Python type, which is what *)
(* isinstance(gzone, dict) at line 129 reads.                              *)
(***************************************************************************)
Str(z) == [kind |-> "str", name |-> z]
Dict(m) == [kind |-> "dict", map |-> m]
NoValue == [kind |-> "none"]

ZoneNames == {"eu", "us-east", "us-west"}
Regions == {"CA"}
NoCode == "None"    \* iso_code is None

\* A regional map: exactly one 'default', string-valued; the other keys are
\* region codes with string values (rule 5 of zone()'s docstring).
RegionalMaps ==
    UNION { [({"default"} \cup R) -> {Str(z) : z \in ZoneNames}] : R \in SUBSET Regions }

\* The zones dicts of the model (rules 1-4 of zone()'s docstring): 'default' with
\* a string value, 'FR' absent or a string, 'US' absent, a string or a regional map.
ZoneMaps ==
    { [k \in ({"default"} \cup C) |->
          IF k = "default" THEN Str(d) ELSE IF k = "FR" THEN fr ELSE us] :
        d \in {"eu", "us-east"},
        C \in SUBSET {"FR", "US"},
        fr \in {Str("eu"), Str("us-west")},
        us \in {Str("us-east")} \cup {Dict(m) : m \in RegionalMaps} }

\* The arguments of the model: edns with and without a netmask, public, reserved
\* and unparsable, IPv4 and IPv6.
EdnsInputs ==
    { <<"0", ".", "0", ".", "0", ".", "0", "/", "8">>,                  \* 0.0.0.0/8
      <<"8", ".", "8", ".", "8", ".", "8", "/", "2", "4">>,             \* 8.8.8.8/24
      <<"8", ".", "8", ".", "8", ".", "8">>,                            \* 8.8.8.8
      <<"1", "0", "0", ".", "6", "4", ".", "0", ".", "1", "/", "1", "0">>,  \* 100.64.0.1/10
      <<"2", "0", "0", "1", ":", "d", "b", "8", ":", ":", "1", "/", "3", "2">>,  \* 2001:db8::1/32
      <<"2", "0", "0", "1", ":", "4", "8", "6", "0", ":", ":", "8", "8", "8", "8",
        "/", "5", "6">>,                                                \* 2001:4860::8888/56
      <<"n", "o", "p", "e">>,                                           \* nope
      <<"/", "2", "4">> }                                               \* /24

RemoteInputs ==
    { <<"8", ".", "8", ".", "4", ".", "4">>,                            \* 8.8.4.4
      <<"1", "9", "2", ".", "1", "6", "8", ".", "0", ".", "1">>,        \* 192.168.0.1
      <<"1", "7", "2", ".", "3", "2", ".", "0", ".", "1">>,             \* 172.32.0.1
      <<"8", ".", "8", ".", "8", ".", "8", "/", "2", "4">>,             \* 8.8.8.8/24
      <<":", ":", "1">>,                                                \* ::1
      <<"2", "0", "0", "1", ":", "4", "8", "6", "0", ":", ":", "8", "8", "4", "4">> }  \* 2001:4860::8844

\* What georeader.city(address) may answer: a record with the country and the
\* most specific subdivision (either may be None), AddressNotFoundError, or
\* another exception of the reader.
GeoAnswers ==
    [country : {"US", "FR", "DE", NoCode}, region : {"CA", "NY", NoCode}]
GeoErrors == {"InvalidDatabaseError", "TypeError"}
NoGeo == [country |-> "?", region |-> "?"]

\* A variant of StripNetmask: the netmask is left in place.
StripNothing(e) == e

\* Line 103: edns.split('/')[0]
StripNetmask(e) == Split(e, "/")[1]

\* A variant of EffectiveAddress: remoteip is preferred to the EDNS address.
EffectiveAddressRemoteFirst(e, r) ==
    IF reserved(r)
    THEN IF reserved(e) THEN NoStr ELSE e
    ELSE r

\* Lines 106-114: which of the two addresses is geolocated; NoStr when both are
\* reserved and zone() returns at line 110.
EffectiveAddress(e, r) ==
    IF reserved(e)
    THEN IF reserved(r) THEN NoStr ELSE r
    ELSE e

\* A variant of SelectZone: line 132 left out, so that a region that is no key
\* falls back to the root default.
SelectZoneRootDefault(zs, g) ==
    LET default_zone == zs["default"]
        gzone == IF g.country \in DOMAIN zs THEN zs[g.country] ELSE default_zone
    IN  IF gzone.kind = "dict"
        THEN IF g.region \in DOMAIN gzone.map THEN gzone.map[g.region]
             ELSE default_zone
        ELSE gzone

\* Lines 123-136: the zone for the country and region of the answer.
SelectZone(zs, g) ==
    LET default_zone == zs["default"]
        gzone == IF g.country \in DOMAIN zs THEN zs[g.country] ELSE default_zone
    IN  IF gzone.kind = "dict"
        THEN LET region_default == zs[g.country].map["default"]
             IN  IF g.region \in DOMAIN gzone.map THEN gzone.map[g.region]
                 ELSE region_default
        ELSE gzone

\* Lines 99-114.
ZoneEntry ==
    /\ zpc = "entry"
    /\ edns' = StripNetmask(edns)
    /\ LET a == EffectiveAddress(StripNetmask(edns), remoteip)
       IN  IF a = NoStr
           THEN /\ zresult' = zones["default"]
                /\ zpc' = "done"
                /\ UNCHANGED address
           ELSE /\ address' = a
                /\ zpc' = "geolocate"
                /\ UNCHANGED zresult
    /\ UNCHANGED <<zones, remoteip, edns0, geo, lookups, zraised, svars>>

\* Line 118, the lookup answers.
ZoneGeoFound ==
    /\ zpc = "geolocate"
    /\ lookups' = lookups + 1
    /\ \E g \in GeoAnswers : geo' = g
    /\ zpc' = "select"
    /\ UNCHANGED <<zones, remoteip, edns0, edns, address, zresult, zraised, svars>>

\* Lines 118-121, the lookup raises AddressNotFoundError.
ZoneGeoNotFound ==
    /\ zpc = "geolocate"
    /\ lookups' = lookups + 1
    /\ zresult' = zones["default"]
    /\ zpc' = "done"
    /\ UNCHANGED <<zones, remoteip, edns0, edns, address, geo, zraised, svars>>

\* Line 118, the lookup raises an exception that line 119 does not name.
ZoneGeoError ==
    /\ zpc = "geolocate"
    /\ lookups' = lookups + 1
    /\ \E e \in GeoErrors : zraised' = e
    /\ zpc' = "raised"
    /\ UNCHANGED <<zones, remoteip, edns0, edns, address, geo, zresult, svars>>

\* Lines 123-136.
ZoneSelect ==
    /\ zpc = "select"
    /\ zresult' = SelectZone(zones, geo)
    /\ zpc' = "done"
    /\ UNCHANGED <<zones, remoteip, edns0, edns, address, geo, lookups, zraised, svars>>

NextZone ==
    \/ ZoneEntry
    \/ ZoneGeoFound
    \/ ZoneGeoNotFound
    \/ ZoneGeoError
    \/ ZoneSelect

\* No call of zone() in progress.
ZoneIdle ==
    /\ zpc = "idle"
    /\ zones = [k \in {"default"} |-> Str("eu")]
    /\ remoteip = NoStr
    /\ edns0 = NoStr
    /\ edns = NoStr
    /\ address = NoStr
    /\ geo = NoGeo
    /\ lookups = 0
    /\ zresult = NoValue
    /\ zraised = "none"

\* No call of site() in progress.
SiteIdle ==
    /\ spc = "idle"
    /\ sites = <<>>
    /\ qname0 = NoStr
    /\ qname = NoStr
    /\ qzone = "default"
    /\ qclass = "IN"
    /\ qtype = NoStr
    /\ wildcard = NoStr
    /\ mclass = <<>>
    /\ qtypes = <<>>
    /\ records = <<>>
    /\ mcontent = <<>>
    /\ rnd = 0
    /\ sresult = <<>>
    /\ sraised = "none"

\* A call zone(georeader, zones, remoteip, edns) is entered.
InitZone ==
    /\ zpc = "entry"
    /\ zones \in ZoneMaps
    /\ remoteip \in RemoteInputs
    /\ edns0 \in EdnsInputs
    /\ edns = edns0
    /\ address = NoStr
    /\ geo = NoGeo
    /\ lookups = 0
    /\ zresult = NoValue
    /\ zraised = "none"
    /\ SiteIdle

SpecZone == InitZone /\ [][NextZone]_vars

(***************************************************************************)
(* site(sites, qname, qzone, qclass, qtype), lines 138-218.                *)
(*                                                                         *)
(* sites maps a name to a dict from class to a dict from type to a record  *)
(* set: 'content' (zone name to weight table) and, optionally, 'ttl'. A    *)
(* weight table maps an address to its weight.                             *)
(***************************************************************************)
ANY == <<"A", "N", "Y">>
TypeA == <<"A">>
TypeAAAA == <<"A", "A", "A", "A">>
TypeMX == <<"M", "X">>
TypeTXT == <<"T", "X", "T">>

\* Addresses of the weight tables. Their order as strings differs from their
\* order as numbers: "1.1.1.1" < "10.0.0.1" < "2.2.2.2" < "2.2.2.20" < "9.9.9.9".
AddrPool ==
    << <<"9", ".", "9", ".", "9", ".", "9">>,
       <<"1", "0", ".", "0", ".", "0", ".", "1">>,
       <<"2", ".", "2", ".", "2", ".", "2">>,
       <<"1", ".", "1", ".", "1", ".", "1">>,
       <<"2", ".", "2", ".", "2", ".", "2", "0">> >>
Addr(i) == AddrPool[i]

\* A dict with one key, and the union of two dicts with disjoint keys.
One(k, v) == [x \in {k} |-> v]
Merge(f, g) == [x \in (DOMAIN f) \cup (DOMAIN g) |-> IF x \in DOMAIN f THEN f[x] ELSE g[x]]

\* Line 177: '*' + qname[qname.find('.'):]
WildcardOf(q) == <<"*">> \o SliceFrom(q, Find(q, "."))

\* A variant of QTypes: a type that is not configured is answered like ANY.
QTypesNoCheck(mc, qt) ==
    IF qt \in DOMAIN mc THEN <<qt>> ELSE Sorted(DOMAIN mc)

\* Lines 190-196: the types to answer, NoStr when line 196 returns [].
QTypes(mc, qt) ==
    IF qt = ANY THEN Sorted(DOMAIN mc)
    ELSE IF qt \in DOMAIN mc THEN <<qt>>
    ELSE <<NoStr>>

\* Line 201: mname.get('ttl', 3600)
Ttl(mname) == IF "ttl" \in DOMAIN mname THEN mname.ttl ELSE DefaultTtl

\* A variant of Content: qzone is ignored.
ContentDefaultOnly(mname, qz) == mname.content["default"]

\* Line 202: mname['content'].get(qzone, mname['content']['default'])
Content(mname, qz) ==
    IF qz \in DOMAIN mname.content THEN mname.content[qz] ELSE mname.content["default"]

\* A variant of WrrLoop: line 214 left out, upto stays 0.
RECURSIVE WrrLoopNoAccumulate(_, _, _, _, _)
WrrLoopNoAccumulate(keys, mc, r, upto, cur) ==
    IF keys = <<>> THEN cur
    ELSE IF r <= upto + mc[Head(keys)] THEN Head(keys)
    ELSE WrrLoopNoAccumulate(Tail(keys), mc, r, upto, Head(keys))


\* A variant of WrrLoop: < for <= at line 212.
RECURSIVE WrrLoopStrict(_, _, _, _, _)
WrrLoopStrict(keys, mc, r, upto, cur) ==
    IF keys = <<>> THEN cur
    ELSE IF r < upto + mc[Head(keys)] THEN Head(keys)
    ELSE WrrLoopStrict(Tail(keys), mc, r, upto + mc[Head(keys)], Head(keys))

\* Lines 210-214: the for loop over sorted(mcontent); `cur` is the loop variable
\* `address` as the previous iteration left it, which is what stays bound when
\* the loop ends without a break.
RECURSIVE WrrLoop(_, _, _, _, _)
WrrLoop(keys, mc, r, upto, cur) ==
    IF keys = <<>> THEN cur
    ELSE IF r <= upto + mc[Head(keys)] THEN Head(keys)
    ELSE WrrLoop(Tail(keys), mc, r, upto + mc[Head(keys)], Head(keys))

\* Lines 205-214 for the draw r: `first` is mcontent.keys()[0].
SelectAddress(mc, r, first) ==
    IF Cardinality(DOMAIN mc) > 1
    THEN WrrLoop(Sorted(DOMAIN mc), mc, r, 0, first)
    ELSE first

\* Lines 174-182.
SiteMatchName ==
    /\ spc = "name"
    /\ IF qname \in DOMAIN sites
       THEN /\ spc' = "class"
            /\ UNCHANGED <<qname, wildcard, sresult>>
       ELSE /\ wildcard' = WildcardOf(qname)
            /\ IF WildcardOf(qname) \in DOMAIN sites
               THEN /\ qname' = WildcardOf(qname)
                    /\ spc' = "class"
                    /\ UNCHANGED sresult
               ELSE /\ sresult' = <<>>
                    /\ spc' = "done"
                    /\ UNCHANGED qname
    /\ UNCHANGED <<sites, qname0, qzone, qclass, qtype, mclass, qtypes, records,
                   mcontent, rnd, sraised, zvars>>

\* Lines 184-188.
SiteMatchClass ==
    /\ spc = "class"
    /\ IF qclass \in DOMAIN sites[qname]
       THEN /\ mclass' = sites[qname][qclass]
            /\ spc' = "types"
            /\ UNCHANGED sresult
       ELSE /\ sresult' = <<>>          \* except KeyError: return []
            /\ spc' = "done"
            /\ UNCHANGED mclass
    /\ UNCHANGED <<sites, qname0, qname, qzone, qclass, qtype, wildcard, qtypes,
                   records, mcontent, rnd, sraised, zvars>>

\* Lines 190-198.
SiteExpandTypes ==
    /\ spc = "types"
    /\ IF QTypes(mclass, qtype) = <<NoStr>>
       THEN /\ sresult' = <<>>
            /\ spc' = "done"
            /\ UNCHANGED <<qtypes, records>>
       ELSE /\ qtypes' = QTypes(mclass, qtype)
            /\ records' = <<>>
            /\ spc' = "loop"
            /\ UNCHANGED sresult
    /\ UNCHANGED <<sites, qname0, qname, qzone, qclass, qtype, wildcard, mclass,
                   mcontent, rnd, sraised, zvars>>

\* Lines 199-216, one iteration of the loop over qtypes. randint(1, sum) draws
\* any integer of 1..sum.
SiteSelect ==
    /\ spc = "loop"
    /\ Len(records) < Len(qtypes)
    /\ LET t == qtypes[Len(records) + 1]
           mname == mclass[t]
           mc == Content(mname, qzone)
       IN  /\ mcontent' = mc
           /\ \E first \in DOMAIN mc :
                 IF Cardinality(DOMAIN mc) > 1
                 THEN \E r \in 1..SumValues(mc) :
                         /\ rnd' = r
                         /\ records' = Append(records, <<t, SelectAddress(mc, r, first), Ttl(mname)>>)
                 ELSE /\ rnd' = 0
                      /\ records' = Append(records, <<t, SelectAddress(mc, 0, first), Ttl(mname)>>)
    /\ UNCHANGED <<spc, sites, qname0, qname, qzone, qclass, qtype, wildcard, mclass,
                   qtypes, sresult, sraised, zvars>>

\* Line 218.
SiteReturn ==
    /\ spc = "loop"
    /\ Len(records) = Len(qtypes)
    /\ sresult' = records
    /\ spc' = "done"
    /\ UNCHANGED <<sites, qname0, qname, qzone, qclass, qtype, wildcard, mclass,
                   qtypes, records, mcontent, rnd, sraised, zvars>>

NextSite ==
    \/ SiteMatchName
    \/ SiteMatchClass
    \/ SiteExpandTypes
    \/ SiteSelect
    \/ SiteReturn

\* The weight tables of the model's sites: one entry and several, zone names
\* with tables of their own that share no address with the default's.
Table1 == Merge(One(Addr(4), 1), One(Addr(3), 2))
Table2 == One(Addr(1), 1)
Table3 == Merge(Merge(One(Addr(1), 1), One(Addr(2), 1)), One(Addr(3), 1))
Table4 == One(Addr(2), 2)
RecordSetA == [ttl |-> 60, content |-> Merge(One("default", Table1), One("us", Table2))]
RecordSetAAAA == [ttl |-> 300, content |-> Merge(One("default", Table4), One("eu", Table3))]
RecordSetMX == [content |-> One("default", Table3)]
RecordSetOf(t) ==
    IF t = TypeA THEN RecordSetA ELSE IF t = TypeAAAA THEN RecordSetAAAA ELSE RecordSetMX

\* The dicts under a class: every set of the types A, AAAA and MX.
TypeMaps == { [t \in T |-> RecordSetOf(t)] : T \in SUBSET {TypeA, TypeAAAA, TypeMX} }

\* The dicts under a name: class IN alone, or IN and CH.
ClassMaps ==
    { One("IN", tm) : tm \in TypeMaps }
    \cup { Merge(One("IN", tm), One("CH", One(TypeTXT, RecordSetMX))) :
           tm \in { One(TypeA, RecordSetA) } }

\* The names configured: a FQDN or a DNS wildcard (site()'s docstring).
NameAB == <<"a", ".", "b">>
NameStarB == <<"*", ".", "b">>
NameB == <<"b">>
WildcardClassMap == One("IN", Merge(One(TypeA, RecordSetMX), One(TypeMX, RecordSetA)))

SiteMaps ==
    { [k \in K |-> IF k = NameStarB THEN WildcardClassMap ELSE cm] :
        K \in SUBSET {NameAB, NameStarB, NameB}, cm \in ClassMaps }

\* The names asked for: configured, covered by the wildcard, not covered, with
\* one label and no dot, with a trailing dot, and empty.
QNames ==
    { NameAB,
      NameB,
      <<"c", ".", "b">>,
      <<"a", ".", "c">>,
      <<"c", ".", "a", ".", "b">>,
      <<"a", "b">>,
      <<"b", ".">>,
      <<>> }

\* A call site(sites, qname, qzone, qclass, qtype) is entered.
SiteEntered ==
    /\ spc = "name"
    /\ qname = qname0
    /\ wildcard = NoStr
    /\ mclass = <<>>
    /\ qtypes = <<>>
    /\ records = <<>>
    /\ mcontent = <<>>
    /\ rnd = 0
    /\ sresult = <<>>
    /\ sraised = "none"

InitSite ==
    /\ ZoneIdle
    /\ sites \in SiteMaps
    /\ qname0 \in QNames
    /\ qzone \in {"us", "eu"}
    /\ qclass \in {"IN", "CH"}
    /\ qtype \in {ANY, TypeA, TypeMX, TypeTXT}
    /\ SiteEntered

SpecSite == InitSite /\ [][NextSite]_vars

\* Every weight table over the first NumAddrs addresses of AddrPool with weights
\* of 0..MaxWeight; a table of several entries has a positive sum, which
\* randint(1, sum) at line 208 needs.
WeightTables ==
    { mc \in UNION { [{Addr(i) : i \in I} -> 0..MaxWeight] : I \in (SUBSET (1..NumAddrs)) \ {{}} } :
        Cardinality(DOMAIN mc) > 1 => SumValues(mc) > 0 }

\* A call of site() for a name with one record set, whose default weight table is
\* any table of WeightTables.
InitWrr ==
    /\ ZoneIdle
    /\ \E mc \in WeightTables :
          sites = One(NameAB, One("IN", One(TypeA, [content |-> One("default", mc)])))
    /\ qname0 \in {NameAB, <<"c", ".", "b">>}
    /\ qzone = "us"
    /\ qclass \in {"IN", "CH"}
    /\ qtype \in {ANY, TypeA, TypeMX}
    /\ SiteEntered

SpecWrr == InitWrr /\ [][NextSite]_vars

(***************************************************************************)
(* Claims about zone(), checked under SpecZone.                            *)
(***************************************************************************)
\* The characters of s before its first '/', all of s when it has none.
BeforeSlash(s) ==
    IF \E i \in 1..Len(s) : s[i] = "/"
    THEN SubSeq(s, 1, (CHOOSE i \in 1..Len(s) :
                          s[i] = "/" /\ \A j \in 1..(i - 1) : s[j] /= "/") - 1)
    ELSE s
HasSlash(s) == \E i \in 1..Len(s) : s[i] = "/"
BothReserved == reserved(BeforeSlash(edns0)) /\ reserved(remoteip)
ZoneReturned == zpc = "done"
ZoneLeft == zpc \in {"done", "raised"}

\* C2: once zone() is past line 114, the address to geolocate is the EDNS address
\* without its netmask whenever that address is not reserved, whatever remoteip
\* is; it is remoteip when the EDNS address is reserved and remoteip is not; and
\* when both are reserved zone() has returned zones['default'] without a lookup.
C2_AddressFallback ==
    zpc \notin {"idle", "entry"} =>
        /\ ~reserved(BeforeSlash(edns0)) => address = BeforeSlash(edns0)
        /\ (reserved(BeforeSlash(edns0)) /\ ~reserved(remoteip)) => address = remoteip
        /\ BothReserved =>
              /\ zpc = "done"
              /\ zresult = zones["default"]
              /\ lookups = 0
              /\ address = NoStr
        /\ ~BothReserved => (zpc = "geolocate" \/ lookups = 1)

\* C2 witness: an EDNS address with a netmask, not reserved, is about to be
\* geolocated without the netmask although remoteip is not reserved either.
C2_Witness ==
    /\ zpc = "geolocate"
    /\ HasSlash(edns0)
    /\ ~reserved(remoteip)
    /\ address = BeforeSlash(edns0)
    /\ address /= remoteip

\* The values a zones dict can give: the root default, the country leaves, and
\* the leaves and defaults of the regional maps.
ZoneValues(zs) ==
    {zs[k] : k \in {c \in DOMAIN zs : zs[c].kind = "str"}}
    \cup UNION { {zs[k].map[r] : r \in DOMAIN zs[k].map} :
                 k \in {c \in DOMAIN zs : zs[c].kind = "dict"} }

\* C3: for a geolocated (country, region), zone() returns the root default when
\* the country is no key of zones, the country's value when it is a string, and
\* for a regional map the value under the region when the region is a key and
\* the map's own default otherwise; what zone() returns is always a non-empty
\* string that occurs in zones, never a nested map.
C3_LayeredDefault ==
    ZoneReturned =>
        /\ zresult.kind = "str"
        /\ zresult.name /= ""
        /\ zresult \in ZoneValues(zones)
        /\ geo /= NoGeo =>
              /\ geo.country \notin DOMAIN zones => zresult = zones["default"]
              /\ geo.country \in DOMAIN zones =>
                    /\ zones[geo.country].kind = "str" => zresult = zones[geo.country]
                    /\ zones[geo.country].kind = "dict" =>
                          /\ geo.region \in DOMAIN zones[geo.country].map =>
                                zresult = zones[geo.country].map[geo.region]
                          /\ geo.region \notin DOMAIN zones[geo.country].map =>
                                zresult = zones[geo.country].map["default"]

\* C3 witness: the country has a regional map without the region, and the map's
\* default, which differs from the root default, is returned.
C3_Witness ==
    /\ ZoneReturned
    /\ geo /= NoGeo
    /\ geo.country \in DOMAIN zones
    /\ zones[geo.country].kind = "dict"
    /\ geo.region \notin DOMAIN zones[geo.country].map
    /\ zresult = zones[geo.country].map["default"]
    /\ zresult /= zones["default"]

\* C4 (as claimed): whenever the lookup has failed, with 'address not found' or
\* with any other error, zone() has returned zones['default'] after one lookup
\* and no exception has left it.
C4_EveryFailureDefaults ==
    (ZoneLeft /\ lookups > 0 /\ geo = NoGeo) =>
        /\ zpc = "done"
        /\ zraised = "none"
        /\ zresult = zones["default"]
        /\ lookups = 1

\* C5 (as claimed): every call of zone(), both addresses reserved included, has
\* made exactly one lookup when it ends, with a bare IP address as argument.
C5_ExactlyOneLookup ==
    ZoneLeft =>
        /\ lookups = 1
        /\ IPAddress(address) /= Invalid
        /\ ~HasSlash(address)

\* C5 (amended): a call of zone() makes no lookup when both addresses are
\* reserved and exactly one otherwise, never more, and the argument of the
\* lookup is the text of an IP address without a netmask.
C5_AtMostOneLookup ==
    /\ lookups <= 1
    /\ ZoneLeft => lookups = (IF BothReserved THEN 0 ELSE 1)
    /\ (zpc = "geolocate" \/ lookups = 1) =>
          /\ IPAddress(address) /= Invalid
          /\ ~HasSlash(address)

\* C5 witness: the one lookup was made for remoteip, which zone() does not strip.
C5_Witness ==
    /\ ZoneLeft
    /\ lookups = 1
    /\ address = remoteip
    /\ reserved(BeforeSlash(edns0))

(***************************************************************************)
(* Claims about site(), checked under SpecSite and SpecWrr.                *)
(***************************************************************************)
\* The wildcard key of a name as the documentation has it: the leftmost label
\* replaced by '*', that is '*' followed by the name from its first dot on.
LabelWildcard(q) ==
    IF \E i \in 1..Len(q) : q[i] = "."
    THEN <<"*">> \o SubSeq(q, CHOOSE i \in 1..Len(q) :
                                q[i] = "." /\ \A j \in 1..(i - 1) : q[j] /= ".", Len(q))
    ELSE <<"*">>

\* The key of sites the name asked for matches: itself, else its wildcard key.
MatchKey == IF qname0 \in DOMAIN sites THEN qname0 ELSE LabelWildcard(qname0)
NameMatches == MatchKey \in DOMAIN sites
ClassMatches == NameMatches /\ qclass \in DOMAIN sites[MatchKey]
TypeMatches == ClassMatches /\ (qtype = ANY \/ qtype \in DOMAIN sites[MatchKey][qclass])
SiteReturned == spc = "done"

\* C6 (as claimed): past the name check, a literal key is the matched name and
\* no other key was looked up; otherwise the one key looked up is the name with
\* its leftmost label replaced by '*', for names of several labels, of one label
\* and without a dot alike, and it is the matched name exactly when it is a key.
C6_WildcardKey ==
    spc \notin {"idle", "name"} =>
        /\ qname0 \in DOMAIN sites => (qname = qname0 /\ wildcard = NoStr)
        /\ qname0 \notin DOMAIN sites =>
              /\ wildcard = LabelWildcard(qname0)
              /\ wildcard \in DOMAIN sites => qname = wildcard
              /\ wildcard \notin DOMAIN sites => (SiteReturned /\ sresult = <<>>)

\* C7: when the name matches neither literally nor by its wildcard key, or the
\* class is absent under the matched name, or the type is not ANY and absent
\* under the matched class, site() ends by returning the empty list and raises
\* nothing; no tuple is ever built in such a call.
C7_NoMatchIsEmpty ==
    ~TypeMatches =>
        /\ sraised = "none"
        /\ spc \in {"name", "class", "types", "done"}
        /\ records = <<>>
        /\ SiteReturned => sresult = <<>>

\* C7 witness: a literal match whose entry lacks the class asked for has
\* returned the empty list.
C7_Witness ==
    /\ SiteReturned
    /\ qname0 \in DOMAIN sites
    /\ qclass \notin DOMAIN sites[qname0]
    /\ sresult = <<>>
    /\ sraised = "none"

\* C8: with type ANY the result holds exactly one tuple for every type under
\* the matched name and class, in ascending order of type, each with the ttl of
\* its own record set, 3600 when it has none; with another configured type the
\* result is the one tuple of that type.
C8_TypeExpansion ==
    (SiteReturned /\ TypeMatches) =>
        LET mc == sites[MatchKey][qclass]
        IN  /\ \A i \in 1..Len(sresult) :
                  /\ sresult[i][1] \in DOMAIN mc
                  /\ sresult[i][3] = (IF "ttl" \in DOMAIN mc[sresult[i][1]]
                                      THEN mc[sresult[i][1]].ttl ELSE 3600)
            /\ qtype = ANY =>
                  /\ Len(sresult) = Cardinality(DOMAIN mc)
                  /\ {sresult[i][1] : i \in 1..Len(sresult)} = DOMAIN mc
                  /\ \A i \in 1..Len(sresult), j \in 1..Len(sresult) :
                        i < j => StrLess(sresult[i][1], sresult[j][1])
            /\ qtype /= ANY =>
                  /\ Len(sresult) = 1
                  /\ sresult[1][1] = qtype

\* C8 witness: an ANY query answered with three types, of which one has a ttl of
\* its own and one the default.
C8_Witness ==
    /\ SiteReturned
    /\ qtype = ANY
    /\ Len(sresult) = 3
    /\ sresult[1][1] = TypeA
    /\ sresult[2][1] = TypeAAAA
    /\ sresult[3][1] = TypeMX
    /\ sresult[1][3] /= sresult[3][3]
    /\ sresult[3][3] = 3600

\* The weight table line 202 selects for type t.
SelectedTable(t) ==
    LET content == sites[MatchKey][qclass][t].content
    IN  IF qzone \in DOMAIN content THEN content[qzone] ELSE content["default"]

\* C9: the address of every tuple built or returned is a key of the weight table
\* selected for the tuple's type, content[qzone] when qzone is a key of content
\* and content['default'] otherwise, for every draw and for tables of one entry
\* as of several.
C9_AddressFromSelectedTable ==
    /\ \A i \in 1..Len(records) : records[i][2] \in DOMAIN SelectedTable(records[i][1])
    /\ \A i \in 1..Len(sresult) : sresult[i][2] \in DOMAIN SelectedTable(sresult[i][1])
    /\ \A i \in 1..Len(records) :
          Cardinality(DOMAIN SelectedTable(records[i][1])) = 1 =>
              DOMAIN SelectedTable(records[i][1]) = {records[i][2]}

\* C9 witness: a returned tuple whose table is the zone's own, and another whose
\* table has several entries.
C9_Witness ==
    /\ SiteReturned
    /\ \E i \in 1..Len(sresult) :
          /\ qzone \in DOMAIN sites[MatchKey][qclass][sresult[i][1]].content
          /\ sresult[i][2] \notin DOMAIN sites[MatchKey][qclass][sresult[i][1]].content["default"]
    /\ \E i \in 1..Len(sresult) : Cardinality(DOMAIN SelectedTable(sresult[i][1])) > 1

\* The tuple the latest iteration of the loop at line 199 appended.
LastAddress == records[Len(records)][2]
\* The sum of the weights of the keys of mc that sort before a.
WeightBelow(mc, a) == SumValues([k \in {x \in DOMAIN mc : StrLess(x, a)} |-> mc[k]])
Several(mc) == Cardinality(DOMAIN mc) > 1
AllPositive(mc) == \A k \in DOMAIN mc : mc[k] > 0

\* C1: for a table of several entries with positive weights and the draw r of
\* 1..totalWeight, the address selected is the one key whose interval of the
\* running sum over the keys in ascending string order holds r, so it depends on
\* the table and r alone; and every key a is selected by exactly weight(a) of
\* the draws 1..totalWeight.
C1_WeightedSelection ==
    (records /= <<>> /\ Several(mcontent) /\ AllPositive(mcontent)) =>
        /\ rnd \in 1..SumValues(mcontent)
        /\ LastAddress \in DOMAIN mcontent
        /\ WeightBelow(mcontent, LastAddress) < rnd
        /\ rnd <= WeightBelow(mcontent, LastAddress) + mcontent[LastAddress]
        /\ \A a \in DOMAIN mcontent :
              Cardinality({r \in 1..SumValues(mcontent) :
                              \A first \in DOMAIN mcontent :
                                  SelectAddress(mcontent, r, first) = a})
                  = mcontent[a]

\* C1 witness: a table of three entries with unequal positive weights, and the
\* draw selected the middle key.
C1_Witness ==
    /\ records /= <<>>
    /\ Cardinality(DOMAIN mcontent) = 3
    /\ AllPositive(mcontent)
    /\ \E a, b \in DOMAIN mcontent : mcontent[a] /= mcontent[b]
    /\ \E a, b \in DOMAIN mcontent : StrLess(a, LastAddress) /\ StrLess(LastAddress, b)

\* C10: in a table of several entries (weights not negative, sum positive) a key
\* of weight 0 is selected by no draw of 1..totalWeight, wherever it sorts; in a
\* table of one entry that entry is selected, also when its weight is 0.
C10_ZeroWeightNeverSelected ==
    records /= <<>> =>
        /\ Several(mcontent) =>
              /\ mcontent[LastAddress] > 0
              /\ \A r \in 1..SumValues(mcontent), first \in DOMAIN mcontent :
                    mcontent[SelectAddress(mcontent, r, first)] > 0
        /\ ~Several(mcontent) => DOMAIN mcontent = {LastAddress}

\* C10 witness: the greatest key of a table of several entries has weight 0, the
\* draw is the total weight, and a key of positive weight was selected.
C10_Witness ==
    /\ records /= <<>>
    /\ Several(mcontent)
    /\ rnd = SumValues(mcontent)
    /\ \E z \in DOMAIN mcontent :
          /\ mcontent[z] = 0
          /\ \A k \in DOMAIN mcontent \ {z} : StrLess(k, z)
    /\ mcontent[LastAddress] > 0

====
